---------------------------- MODULE Spec2Model ----------------------------
(***************************************************************************)
(* A model of S3DataLakeManager (src/infra/boto3/s3_bucket_manager.py):    *)
(* bucket-name generation, the provisioning sequence of                    *)
(* create_data_lake_bucket, upload_sample_data, list_bucket_contents and   *)
(* delete_bucket, called one after the other on one manager and run        *)
(* against a storage service whose answers are nondeterministic.           *)
(*                                                                         *)
(* Representation.  A Python str that the code walks character by          *)
(* character (project, environment, the bucket name, tag values) is a      *)
(* sequence of characters; a character is a one-character string, and a    *)
(* non-ASCII code point is written by its name, e.g. "U+00E9".  A str that *)
(* the code only concatenates or passes on (zone names, object keys, dict  *)
(* keys, API names, error codes) is a TLA+ string.  A Python dict is the   *)
(* sequence of its <<key, value>> items in insertion order.                *)
(***************************************************************************)
EXTENDS Integers, Sequences, FiniteSets, TLC

VARIABLES
    region,       \* self.region
    svc,          \* the storage service: bucket name -> bucket (not local state)
    pc,           \* position of the running operation
    op,           \* the method being run or last run: "none", "create",
                  \* "upload", "list", "delete", "name"
    project,      \* argument of create_data_lake_bucket
    environment,  \* argument of create_data_lake_bucket
    zones,        \* local zones of create_data_lake_bucket (after the None default)
    enable_versioning,
    enable_encryption,
    tags,         \* local tags of create_data_lake_bucket (after the None default)
    suffix,       \* the draw of random.choices in _generate_bucket_name
    bucket_name,  \* local bucket_name / argument bucket_name
    force,        \* argument of delete_bucket
    prefix,       \* argument of list_bucket_contents
    s3_key,       \* argument of upload_sample_data
    local_file_path, \* argument of upload_sample_data
    zi,           \* number of zones the loop of _create_zone_folders has written
    objects,      \* local objects of list_bucket_contents and delete_bucket
    calls,        \* the service calls the running operation has issued, in order
    outcome,      \* what the operation returned or raised
    svc0,         \* the service as it was when the running operation was called
    nops          \* number of operations called on the manager so far

vars == <<region, svc, pc, op, project, environment, zones, enable_versioning,
          enable_encryption, tags, suffix, bucket_name, force, prefix, s3_key,
          local_file_path, zi, objects, calls, outcome, svc0, nops>>

---------------------------------------------------------------------------
(* Characters and str methods                                              *)

AsciiUpper == <<"A","B","C","D","E","F","G","H","I","J","K","L","M",
                "N","O","P","Q","R","S","T","U","V","W","X","Y","Z">>

AsciiLower == <<"a","b","c","d","e","f","g","h","i","j","k","l","m",
                "n","o","p","q","r","s","t","u","v","w","x","y","z">>

AsciiDigits == <<"0","1","2","3","4","5","6","7","8","9">>

Range(s) == { s[i] : i \in DOMAIN s }

\* Non-ASCII code points for which str.isalnum() is true: e-acute, E-acute,
\* capital I with dot above, superscript two, Arabic-Indic digit three.
UnicodeAlnum == {"U+00E9", "U+00C9", "U+0130", "U+00B2", "U+0663"}

\* c.isalnum() for a single character c
IsAlnum(c) == c \in Range(AsciiUpper) \cup Range(AsciiLower)
                    \cup Range(AsciiDigits) \cup UnicodeAlnum

\* c.lower() for a single character c: a str, of two code points for U+0130
Lower(c) ==
    IF c \in Range(AsciiUpper)
    THEN << AsciiLower[CHOOSE i \in DOMAIN AsciiUpper : AsciiUpper[i] = c] >>
    ELSE IF c = "U+00C9" THEN << "U+00E9" >>
    ELSE IF c = "U+0130" THEN << "i", "U+0307" >>
    ELSE << c >>

\* the characters S3 allows in the names this code builds
BucketNameChars == Range(AsciiLower) \cup Range(AsciiDigits) \cup {"-"}

---------------------------------------------------------------------------
(* _generate_bucket_name                                                   *)

\* if len(bucket_name) > 63
MaxBucketNameLen == 63

\* bucket_name[:57]
TruncateAt == 57

\* ''.join(c.lower() for c in s if c.isalnum() or c == '-')
RECURSIVE Clean(_)
Clean(s) ==
    IF s = << >> THEN << >>
    ELSE LET c == Head(s)
         IN (IF IsAlnum(c) \/ c = "-" THEN Lower(c) ELSE << >>) \o Clean(Tail(s))

\* f"{clean_project}-{clean_environment}-data-lake-{suffix}"
UntruncatedName(p, e, sfx) ==
    Clean(p) \o <<"-">> \o Clean(e)
        \o <<"-","d","a","t","a","-","l","a","k","e","-">> \o sfx

\* faulty variant: one character too many is kept
TruncateKeepLong(name, sfx) == SubSeq(name, 1, TruncateAt + 1) \o sfx

\* bucket_name = bucket_name[:57] + suffix
Truncate(name, sfx) == SubSeq(name, 1, TruncateAt) \o sfx

GenerateBucketName(p, e, sfx) ==
    LET name == UntruncatedName(p, e, sfx)
    IN IF Len(name) > MaxBucketNameLen THEN Truncate(name, sfx) ELSE name


---------------------------------------------------------------------------
(* Python values                                                           *)

\* Optional[T]: None is the empty sequence, a value x is <<x>>
None == << >>
Some(x) == << x >>

\* dict: the sequence of its <<key, value>> items in insertion order
DictKeys(d) == { d[i][1] : i \in DOMAIN d }
DictGet(d, k) == d[CHOOSE i \in DOMAIN d : d[i][1] = k][2]

\* d[k] = v: the value is replaced in place, a new key goes to the end
DictSet(d, k, v) ==
    IF k \in DictKeys(d)
    THEN [ i \in DOMAIN d |-> IF d[i][1] = k THEN <<k, v>> ELSE d[i] ]
    ELSE Append(d, <<k, v>>)

\* {**a, **b}
RECURSIVE DictMerge(_, _)
DictMerge(a, b) ==
    IF b = << >> THEN a
    ELSE DictMerge(DictSet(a, Head(b)[1], Head(b)[2]), Tail(b))

---------------------------------------------------------------------------
(* create_data_lake_bucket: defaults, tags, step order                     *)

\* zones = ['landing', 'raw', 'curated', 'analytics'] when zones is None
DefaultZones == << "landing", "raw", "curated", "analytics" >>

ZonesOrDefault(zs) == IF zs = None THEN DefaultZones ELSE zs[1]

\* tags = {} when tags is None
TagsOrDefault(tg) == IF tg = None THEN << >> ELSE tg[1]

BaseTags(p, e) ==
    << <<"Project", p>>,
       <<"Environment", e>>,
       <<"ManagedBy", <<"b","o","t","o","3","-","s","c","r","i","p","t">> >>,
       <<"Purpose", <<"d","a","t","a","-","l","a","k","e">> >> >>

\* faulty variant: {**tags, **base}, the base tags win
BucketTagsBaseWins(p, e, tg) == DictMerge(tg, BaseTags(p, e))

\* bucket_tags = {'Project': ..., 'Environment': ..., 'ManagedBy': ...,
\*                'Purpose': ..., **tags}
BucketTags(p, e, tg) == DictMerge(BaseTags(p, e), tg)

\* tag_set = [{'Key': k, 'Value': v} for k, v in tags.items()]
TagSet(d) == [ i \in DOMAIN d |-> [Key |-> d[i][1], Value |-> d[i][2]] ]

\* faulty variant: the key is the bare folder prefix
ZoneKeyFolder(zone) == zone \o "/"

\* key = f"{zone}/.keep"
ZoneKey(zone) == zone \o "/.keep"

\* faulty variant: nothing is written into the placeholder
PlaceholderBodyEmpty == ""

\* Body=b'placeholder file for data lake zone'
PlaceholderBody == "placeholder file for data lake zone"

\* faulty variant: the placeholders are written before public access is blocked
StepAfterZonesFirst(step, ev, ee, zs) ==
    CASE step = "create_bucket" ->
            IF ev THEN "put_bucket_versioning"
            ELSE IF ee THEN "put_bucket_encryption"
            ELSE IF zs # << >> THEN "put_object" ELSE "put_public_access_block"
      [] step = "put_bucket_versioning" ->
            IF ee THEN "put_bucket_encryption"
            ELSE IF zs # << >> THEN "put_object" ELSE "put_public_access_block"
      [] step = "put_bucket_encryption" ->
            IF zs # << >> THEN "put_object" ELSE "put_public_access_block"
      [] step = "put_object" -> "put_public_access_block"
      [] step = "put_public_access_block" -> "put_bucket_tagging"
      [] step = "put_bucket_tagging" -> "put_bucket_lifecycle_configuration"
      [] OTHER -> "returned"

\* faulty variant: versioning and encryption are set whatever the flags
StepAfterIgnoringFlags(step, ev, ee, zs) ==
    CASE step = "create_bucket" -> "put_bucket_versioning"
      [] step = "put_bucket_versioning" -> "put_bucket_encryption"
      [] step = "put_bucket_encryption" -> "put_public_access_block"
      [] step = "put_public_access_block" ->
            IF zs # << >> THEN "put_object" ELSE "put_bucket_tagging"
      [] step = "put_object" -> "put_bucket_tagging"
      [] step = "put_bucket_tagging" -> "put_bucket_lifecycle_configuration"
      [] OTHER -> "returned"

\* The statement that follows step `step` of the try block of
\* create_data_lake_bucket when the step raised nothing.
StepAfter(step, ev, ee, zs) ==
    CASE step = "create_bucket" ->
            IF ev THEN "put_bucket_versioning"
            ELSE IF ee THEN "put_bucket_encryption"
            ELSE "put_public_access_block"
      [] step = "put_bucket_versioning" ->
            IF ee THEN "put_bucket_encryption" ELSE "put_public_access_block"
      [] step = "put_bucket_encryption" -> "put_public_access_block"
      [] step = "put_public_access_block" ->
            IF zs # << >> THEN "put_object" ELSE "put_bucket_tagging"
      [] step = "put_object" -> "put_bucket_tagging"
      [] step = "put_bucket_tagging" -> "put_bucket_lifecycle_configuration"
      [] OTHER -> "returned"

---------------------------------------------------------------------------
(* Errors and the except clauses                                           *)

OK == [type |-> "ok", code |-> ""]

ClientError(code) == [type |-> "ClientError", code |-> code]

\* a botocore failure that is no ClientError (no answer from the service)
ConnectionError == [type |-> "BotoCoreError", code |-> "EndpointConnectionError"]

\* raise ValueError(f"Bucket name '{bucket_name}' already exists globally")
NamingCollision == [type |-> "ValueError", code |-> "already exists globally"]

\* faulty variant: BucketAlreadyOwnedByYou is re-raised
CreateBucketHandlerOwnedFatal(r) ==
    IF r = ClientError("BucketAlreadyExists") THEN NamingCollision ELSE r

\* faulty variant: BucketAlreadyExists is only logged too
CreateBucketHandlerCollisionTolerated(r) ==
    IF r \in {ClientError("BucketAlreadyExists"),
              ClientError("BucketAlreadyOwnedByYou")} THEN OK ELSE r

\* What _create_bucket raises (OK: nothing) when create_bucket answered r.
CreateBucketHandler(r) ==
    IF r = OK THEN OK
    ELSE IF r.type = "ClientError"
         THEN IF r.code = "BucketAlreadyExists" THEN NamingCollision
              ELSE IF r.code = "BucketAlreadyOwnedByYou" THEN OK
              ELSE r
         ELSE r

\* faulty variant: a failed put_object is not re-raised
StepHandlerSwallowsPutObject(step, r) ==
    IF step = "create_bucket" THEN CreateBucketHandler(r)
    ELSE IF step = "put_object" THEN OK ELSE r

\* What a step of an operation raises (OK: nothing) when its service call
\* answered r: every except clause but _create_bucket's logs and re-raises,
\* and what is no ClientError is not caught before the outer except, which
\* re-raises too.
StepHandler(step, r) ==
    IF step = "create_bucket" THEN CreateBucketHandler(r) ELSE r


---------------------------------------------------------------------------
(* The storage service (external): buckets, and its answer to each call    *)

\* list_objects_v2 returns at most this many keys in one answer, and the
\* code asks once, with neither MaxKeys nor a ContinuationToken.
MaxKeys == 1000

\* number of objects of the small bucket that exists when the manager is built
SmallBucket == 3

Min(a, b) == IF a < b THEN a ELSE b

\* keys of the objects that exist when the manager is built
ExistingKey(i) == "k" \o ToString(10000 + i)

\* Every key of the model, in the order list_objects_v2 lists keys
\* (ascending by the bytes of the key).
ListingOrder ==
    << "analytics/.keep", "curated/.keep" >>
        \o [ i \in 1..(MaxKeys + 1) |-> ExistingKey(i) ]
        \o << "landing/.keep", "landing/incoming/customers.csv", "raw/.keep",
              "raw/customers/customers.csv", "sandbox/.keep" >>

NoObjects == [ k \in {} |-> 0 ]

NewBucket == [owner |-> "me", objects |-> NoObjects, versioning |-> FALSE,
              encryption |-> FALSE, public_access_block |-> FALSE,
              tagging |-> << >>, lifecycle |-> FALSE]

\* a bucket that exists when the manager is built, holding n objects of one
\* byte
ExistingBucket(owner, n) ==
    [NewBucket EXCEPT !.owner = owner,
                      !.objects = [ k \in {ExistingKey(i) : i \in 1..n} |-> 1 ]]

\* f with f[k] = v, k added to its domain if need be
Put(f, k, v) == [ x \in DOMAIN f \cup {k} |-> IF x = k THEN v ELSE f[x] ]

\* f without the keys of ks
Remove(f, ks) == [ x \in DOMAIN f \ ks |-> f[x] ]

\* failures any call can meet whatever the state of the bucket
Transient == { ClientError("AccessDenied"), ConnectionError }

\* The answers the service can give to `api` on bucket `name`: OK or an error.
\* (In us-east-1 the service may also answer OK to the creation of a bucket
\* the caller already owns.)
Responses(api, name) ==
    Transient \cup
    IF api = "create_bucket"
    THEN IF name \notin DOMAIN svc THEN {OK}
         ELSE IF svc[name].owner # "me" THEN {ClientError("BucketAlreadyExists")}
         ELSE {ClientError("BucketAlreadyOwnedByYou")}
                  \cup (IF region = "us-east-1" THEN {OK} ELSE {})
    ELSE IF name \notin DOMAIN svc THEN {ClientError("NoSuchBucket")}
    ELSE IF svc[name].owner # "me" THEN {ClientError("AccessDenied")}
    ELSE IF api = "delete_bucket" /\ DOMAIN svc[name].objects # {}
         THEN {ClientError("BucketNotEmpty")}
    ELSE {OK}

\* the zones keys are written under, and what follows "zone/" in a key
KeyZones == { "analytics", "curated", "landing", "raw", "sandbox" }

KeyRests == { ".keep", "incoming/customers.csv", "customers/customers.csv" }

\* key.startswith(pre), for the keys and the prefixes of the model: the empty
\* prefix, and "zone/" for a key "zone/rest"
StartsWith(key, pre) ==
    \/ pre = ""
    \/ \E z \in KeyZones, rest \in KeyRests :
          pre = z \o "/" /\ key = z \o "/" \o rest

\* The successful answer of list_objects_v2(Bucket=name, Prefix=pre): no
\* 'Contents' when the bucket holds no object under the prefix, else the
\* first MaxKeys of their keys.
ListObjectsV2(name, pre) ==
    LET Held(k) == k \in DOMAIN svc[name].objects /\ StartsWith(k, pre)
        keys == SelectSeq(ListingOrder, Held)
        page == [ i \in 1..Min(Len(keys), MaxKeys) |->
                    [Key |-> keys[i], Size |-> svc[name].objects[keys[i]]] ]
    IN IF page = << >> THEN [KeyCount |-> 0]
       ELSE [KeyCount |-> Len(page), Contents |-> page]

\* list_bucket_contents: the list built from the answer
ListedObjects(response) ==
    IF "Contents" \in DOMAIN response
    THEN [ i \in DOMAIN response.Contents |->
             [key |-> response.Contents[i].Key, size |-> response.Contents[i].Size] ]
    ELSE << >>

\* delete_keys = [{'Key': obj['key']} for obj in objects]
DeleteKeys(objs) == [ i \in DOMAIN objs |-> [Key |-> objs[i].key] ]

\* faulty variant: the objects are listed whatever force is
DeleteEntryAlwaysLists(f) == "list_objects_v2"

\* The first statement of delete_bucket's try block that calls the service.
DeleteEntry(f) == IF f THEN "list_objects_v2" ELSE "delete_bucket"


---------------------------------------------------------------------------
(* Inputs                                                                  *)

Regions == { "us-east-1", "eu-west-1" }

\* two of the draws of random.choices(ascii_lowercase + digits, k=6)
Suffixes == { <<"a","b","c","1","2","3">>, <<"z","9","z","9","z","9">> }

ZoneInputs == { None, Some(<< >>), Some(<<"sandbox", "raw", "sandbox">>) }

TagInputs ==
    { None,
      Some(<< <<"Owner", <<"d","a","t","a">> >>, <<"Purpose", <<"d","e","m","o">> >> >>) }

\* the one bucket name that may be taken when the manager is built
TakenName ==
    GenerateBucketName(<<"S","a","l","e","s">>, <<"d","e","v">>,
                       <<"a","b","c","1","2","3">>)

\* The calls of create_data_lake_bucket: every choice of zones, flags and
\* tags for one project and environment, and the call that leaves every
\* optional argument at its default for a second environment.
CreateInputs ==
    [ project : { <<"S","a","l","e","s">> },
      environment : { <<"d","e","v">> },
      zones : ZoneInputs,
      enable_versioning : BOOLEAN,
      enable_encryption : BOOLEAN,
      tags : TagInputs,
      suffix : { <<"a","b","c","1","2","3">> } ]
    \cup
    [ project : { <<"S","a","l","e","s">> },
      environment : { <<"P","r","o","d">> },
      zones : { None },
      enable_versioning : { TRUE },
      enable_encryption : { TRUE },
      tags : { None },
      suffix : { <<"z","9","z","9","z","9">> } ]

NoBuckets == [ n \in {} |-> NewBucket ]

InitialServices ==
    { NoBuckets, Put(NoBuckets, TakenName, ExistingBucket("other", 0)) }
        \cup { Put(NoBuckets, TakenName, ExistingBucket("me", n)) :
                   n \in {SmallBucket, MaxKeys + 1} }

NoOutcome == [kind |-> "none", value |-> None]

\* how many operations are called on the manager
MaxOps == 2

\* upload_sample_data: the keys uploaded to
UploadKeys == { "raw/customers/customers.csv", "raw/.keep" }

\* the files on the local disk: path |-> size in bytes
LocalFiles == [ f \in {"tmp/customers.csv"} |-> 12 ]

\* list_bucket_contents: the prefixes asked for
Prefixes == { "", "raw/" }

Idle ==
    /\ pc = "idle"
    /\ op = "none"
    /\ project = << >>
    /\ environment = << >>
    /\ zones = << >>
    /\ enable_versioning = FALSE
    /\ enable_encryption = FALSE
    /\ tags = << >>
    /\ suffix = << >>
    /\ bucket_name = << >>
    /\ force = FALSE
    /\ prefix = ""
    /\ s3_key = ""
    /\ local_file_path = ""
    /\ zi = 0
    /\ objects = << >>
    /\ calls = << >>
    /\ outcome = NoOutcome

Init ==
    /\ region \in Regions
    /\ svc \in InitialServices
    /\ svc0 = svc
    /\ nops = 0
    /\ Idle

---------------------------------------------------------------------------
(* Operations                                                              *)

\* One service call of step `step` got the answer r: the call is logged, the
\* service changes to okSvc if it answered OK, and the operation goes on to
\* `next` (returning retval if that is the end) or raises.
Answer(step, api, params, r, okSvc, next, retval) ==
    LET err == StepHandler(step, r)
    IN /\ calls' = Append(calls, [api |-> api, bucket |-> bucket_name,
                                  params |-> params, answer |-> r])
       /\ svc' = IF r = OK THEN okSvc ELSE svc
       /\ pc' = IF err = OK THEN next ELSE "raised"
       /\ outcome' = IF err # OK THEN [kind |-> "raised", value |-> err]
                     ELSE IF next = "returned"
                          THEN [kind |-> "returned", value |-> retval]
                          ELSE outcome

args == <<region, op, project, environment, zones, enable_versioning,
          enable_encryption, tags, suffix, bucket_name, force, prefix, s3_key,
          local_file_path, svc0, nops>>

\* A public method is called on the manager, which runs one operation at a
\* time: method o starts at `entry`, with fresh locals.
Called(o, entry) ==
    /\ pc \in {"idle", "returned", "raised"}
    /\ nops < MaxOps
    /\ nops' = nops + 1
    /\ op' = o
    /\ pc' = entry
    /\ svc0' = svc
    /\ zi' = 0
    /\ objects' = << >>
    /\ calls' = << >>
    /\ outcome' = NoOutcome
    /\ UNCHANGED <<region, svc>>

\* the arguments and locals of create_data_lake_bucket are not in use
NoCreateArgs ==
    /\ project' = << >>
    /\ environment' = << >>
    /\ zones' = << >>
    /\ enable_versioning' = FALSE
    /\ enable_encryption' = FALSE
    /\ tags' = << >>
    /\ suffix' = << >>

\* svc with field f of the running operation's bucket set to v
Configured(f, v) ==
    IF bucket_name \in DOMAIN svc
    THEN [svc EXCEPT ![bucket_name] = Put(svc[bucket_name], f, v)]
    ELSE svc

\* create_data_lake_bucket(project, environment, zones, enable_versioning,
\* enable_encryption, tags) is called: defaults and the bucket name.
CallCreateDataLakeBucket(p, e, zs, ev, ee, tg, sfx) ==
    /\ Called("create", "create_bucket")
    /\ project' = p
    /\ environment' = e
    /\ zones' = ZonesOrDefault(zs)
    /\ enable_versioning' = ev
    /\ enable_encryption' = ee
    /\ tags' = TagsOrDefault(tg)
    /\ suffix' = sfx
    /\ bucket_name' = GenerateBucketName(p, e, sfx)
    /\ force' = FALSE
    /\ prefix' = ""
    /\ s3_key' = ""
    /\ local_file_path' = ""

\* _create_bucket
CreateBucket ==
    /\ pc = "create_bucket"
    /\ \E r \in Responses("create_bucket", bucket_name) :
          Answer("create_bucket", "create_bucket",
                 IF region = "us-east-1" THEN [Bucket |-> bucket_name]
                 ELSE [Bucket |-> bucket_name,
                       CreateBucketConfiguration |-> [LocationConstraint |-> region]],
                 r,
                 IF bucket_name \in DOMAIN svc THEN svc
                 ELSE Put(svc, bucket_name, NewBucket),
                 StepAfter("create_bucket", enable_versioning,
                           enable_encryption, zones),
                 None)
    /\ UNCHANGED <<args, zi, objects>>

\* _enable_versioning
EnableVersioning ==
    /\ pc = "put_bucket_versioning"
    /\ \E r \in Responses("put_bucket_versioning", bucket_name) :
          Answer("put_bucket_versioning", "put_bucket_versioning",
                 [VersioningConfiguration |-> [Status |-> "Enabled"]],
                 r, Configured("versioning", TRUE),
                 StepAfter("put_bucket_versioning", enable_versioning,
                           enable_encryption, zones),
                 None)
    /\ UNCHANGED <<args, zi, objects>>

\* _enable_encryption
EnableEncryption ==
    /\ pc = "put_bucket_encryption"
    /\ \E r \in Responses("put_bucket_encryption", bucket_name) :
          Answer("put_bucket_encryption", "put_bucket_encryption",
                 [SSEAlgorithm |-> "AES256"],
                 r, Configured("encryption", TRUE),
                 StepAfter("put_bucket_encryption", enable_versioning,
                           enable_encryption, zones),
                 None)
    /\ UNCHANGED <<args, zi, objects>>

\* _block_public_access
BlockPublicAccess ==
    /\ pc = "put_public_access_block"
    /\ \E r \in Responses("put_public_access_block", bucket_name) :
          Answer("put_public_access_block", "put_public_access_block",
                 [BlockPublicAcls |-> TRUE, IgnorePublicAcls |-> TRUE,
                  BlockPublicPolicy |-> TRUE, RestrictPublicBuckets |-> TRUE],
                 r, Configured("public_access_block", TRUE),
                 StepAfter("put_public_access_block", enable_versioning,
                           enable_encryption, zones),
                 None)
    /\ UNCHANGED <<args, zi, objects>>

\* _create_zone_folders: one turn of the loop, the put_object of zones[zi + 1]
CreateZoneFolder ==
    /\ pc = "put_object"
    /\ LET key == ZoneKey(zones[zi + 1])
       IN \E r \in Responses("put_object", bucket_name) :
             Answer("put_object", "put_object",
                    [Key |-> key, Body |-> PlaceholderBody,
                     ContentType |-> "text/plain"],
                    r,
                    Configured("objects",
                               IF bucket_name \in DOMAIN svc
                               THEN Put(svc[bucket_name].objects, key,
                                        Len(PlaceholderBody))
                               ELSE NoObjects),
                    IF zi + 1 < Len(zones) THEN "put_object"
                    ELSE StepAfter("put_object", enable_versioning,
                                   enable_encryption, zones),
                    None)
    /\ zi' = IF pc' = "raised" THEN zi ELSE zi + 1
    /\ UNCHANGED <<args, objects>>

\* bucket_tags = {...}; _apply_tags
ApplyTags ==
    /\ pc = "put_bucket_tagging"
    /\ LET tag_set == TagSet(BucketTags(project, environment, tags))
       IN \E r \in Responses("put_bucket_tagging", bucket_name) :
             Answer("put_bucket_tagging", "put_bucket_tagging",
                    [TagSet |-> tag_set],
                    r, Configured("tagging", tag_set),
                    StepAfter("put_bucket_tagging", enable_versioning,
                              enable_encryption, zones),
                    None)
    /\ UNCHANGED <<args, zi, objects>>

\* _configure_lifecycle_rules, then the result is built and returned
ConfigureLifecycleRules ==
    /\ pc = "put_bucket_lifecycle_configuration"
    /\ \E r \in Responses("put_bucket_lifecycle_configuration", bucket_name) :
          Answer("put_bucket_lifecycle_configuration",
                 "put_bucket_lifecycle_configuration",
                 [Rules |-> << [ID |-> "expire-temp-files", Prefix |-> "temp/",
                                Days |-> 7],
                               [ID |-> "expire-noncurrent-versions",
                                NoncurrentDays |-> 90] >>],
                 r, Configured("lifecycle", TRUE),
                 StepAfter("put_bucket_lifecycle_configuration",
                           enable_versioning, enable_encryption, zones),
                 [bucket_name |-> bucket_name, region |-> region,
                  zones |-> zones, versioning_enabled |-> enable_versioning,
                  encryption_enabled |-> enable_encryption])
    /\ UNCHANGED <<args, zi, objects>>

\* delete_bucket(bucket_name, force) is called
CallDeleteBucket(name, f) ==
    /\ Called("delete", DeleteEntry(f))
    /\ NoCreateArgs
    /\ bucket_name' = name
    /\ force' = f
    /\ prefix' = ""
    /\ s3_key' = ""
    /\ local_file_path' = ""

\* list_bucket_contents(bucket_name, prefix) is called
CallListBucketContents(name, pre) ==
    /\ Called("list", "list_objects_v2")
    /\ NoCreateArgs
    /\ bucket_name' = name
    /\ force' = FALSE
    /\ prefix' = pre
    /\ s3_key' = ""
    /\ local_file_path' = ""

\* list_bucket_contents, called by the user or by delete_bucket as
\* objects = self.list_bucket_contents(bucket_name)
ListBucketContents ==
    /\ pc = "list_objects_v2"
    /\ \E r \in Responses("list_objects_v2", bucket_name) :
          /\ objects' = IF r = OK
                        THEN ListedObjects(ListObjectsV2(bucket_name, prefix))
                        ELSE objects
          /\ Answer("list_objects_v2", "list_objects_v2", [Prefix |-> prefix],
                    r, svc,
                    IF op = "list" THEN "returned"
                    ELSE IF objects' # << >> THEN "delete_objects"
                    ELSE "delete_bucket",
                    objects')
    /\ UNCHANGED <<args, zi>>

\* upload_sample_data(bucket_name, local_file_path, s3_key) is called; the
\* file at local_file_path exists
CallUploadSampleData(name, path, key) ==
    /\ Called("upload", "upload_file")
    /\ NoCreateArgs
    /\ bucket_name' = name
    /\ force' = FALSE
    /\ prefix' = ""
    /\ s3_key' = key
    /\ local_file_path' = path

\* self.s3_client.upload_file(local_file_path, bucket_name, s3_key)
UploadFile ==
    /\ pc = "upload_file"
    /\ \E r \in Responses("upload_file", bucket_name) :
          Answer("upload_file", "upload_file",
                 [Filename |-> local_file_path, Bucket |-> bucket_name,
                  Key |-> s3_key],
                 r,
                 Configured("objects",
                            IF bucket_name \in DOMAIN svc
                            THEN Put(svc[bucket_name].objects, s3_key,
                                     LocalFiles[local_file_path])
                            ELSE NoObjects),
                 "returned", None)
    /\ UNCHANGED <<args, zi, objects>>

\* self.s3_client.delete_objects(Bucket=..., Delete={'Objects': delete_keys})
DeleteObjects ==
    /\ pc = "delete_objects"
    /\ LET delete_keys == DeleteKeys(objects)
       IN \E r \in Responses("delete_objects", bucket_name) :
             Answer("delete_objects", "delete_objects",
                    [Objects |-> delete_keys],
                    r,
                    Configured("objects",
                               IF bucket_name \in DOMAIN svc
                               THEN Remove(svc[bucket_name].objects,
                                           { delete_keys[i].Key : i \in DOMAIN delete_keys })
                               ELSE NoObjects),
                    "delete_bucket", None)
    /\ UNCHANGED <<args, zi, objects>>

\* self.s3_client.delete_bucket(Bucket=bucket_name)
DeleteBucket ==
    /\ pc = "delete_bucket"
    /\ \E r \in Responses("delete_bucket", bucket_name) :
          Answer("delete_bucket", "delete_bucket", [Bucket |-> bucket_name],
                 r, Remove(svc, {bucket_name}), "returned", None)
    /\ UNCHANGED <<args, zi, objects>>

Next ==
    \/ \E a \in CreateInputs :
          CallCreateDataLakeBucket(a.project, a.environment, a.zones,
                                   a.enable_versioning, a.enable_encryption,
                                   a.tags, a.suffix)
    \/ CreateBucket
    \/ EnableVersioning
    \/ EnableEncryption
    \/ BlockPublicAccess
    \/ CreateZoneFolder
    \/ ApplyTags
    \/ ConfigureLifecycleRules
    \/ \E name \in DOMAIN svc \cup {TakenName}, path \in DOMAIN LocalFiles,
          key \in UploadKeys :
          CallUploadSampleData(name, path, key)
    \/ UploadFile
    \/ \E name \in DOMAIN svc \cup {TakenName}, pre \in Prefixes :
          CallListBucketContents(name, pre)
    \/ \E name \in DOMAIN svc \cup {TakenName}, f \in BOOLEAN :
          CallDeleteBucket(name, f)
    \/ ListBucketContents
    \/ DeleteObjects
    \/ DeleteBucket

Spec == Init /\ [][Next]_vars


---------------------------------------------------------------------------
(* _generate_bucket_name on its own, on long and on odd inputs             *)

\* how many times a unit is repeated to build a long project name
MaxRepeat == 16

\* k copies of the str u
Repeat(u, k) == [ i \in 1..(k * Len(u)) |-> u[((i - 1) % Len(u)) + 1] ]

NameUnits == { <<"A","b","-">>, <<"_"," ","x","9">>, <<"U+00E9">>,
               <<"U+0130","Z">> }

NameProjects == { Repeat(u, k) : u \in NameUnits, k \in 0..MaxRepeat }

NameEnvironments == { << >>, <<"d","e","v">>, <<"P","r","o","d","!">>,
                      Repeat(<<"q","a","-">>, MaxRepeat) }

InitName ==
    /\ region = "us-east-1"
    /\ svc = NoBuckets
    /\ svc0 = svc
    /\ pc = "generate_bucket_name"
    /\ op = "name"
    /\ project \in NameProjects
    /\ environment \in NameEnvironments
    /\ suffix \in Suffixes
    /\ zones = << >>
    /\ enable_versioning = FALSE
    /\ enable_encryption = FALSE
    /\ tags = << >>
    /\ bucket_name = << >>
    /\ force = FALSE
    /\ prefix = ""
    /\ s3_key = ""
    /\ local_file_path = ""
    /\ zi = 0
    /\ objects = << >>
    /\ calls = << >>
    /\ outcome = NoOutcome
    /\ nops = 0

\* bucket_name = self._generate_bucket_name(project, environment)
GenerateName ==
    /\ pc = "generate_bucket_name"
    /\ bucket_name' = GenerateBucketName(project, environment, suffix)
    /\ pc' = "named"
    /\ UNCHANGED <<region, svc, op, project, environment, zones,
                   enable_versioning, enable_encryption, tags, suffix, force,
                   prefix, s3_key, local_file_path, zi, objects, calls, outcome,
                   svc0, nops>>

NextName == GenerateName

SpecName == InitName /\ [][NextName]_vars

---------------------------------------------------------------------------
(* Properties of create_data_lake_bucket                                   *)

Apis == [ i \in DOMAIN calls |-> calls[i].api ]

Issued(api) == \E i \in DOMAIN calls : calls[i].api = api

Count(api) == Cardinality({ i \in DOMAIN calls : calls[i].api = api })

StepRank(api) ==
    CASE api = "create_bucket" -> 1
      [] api = "put_bucket_versioning" -> 2
      [] api = "put_bucket_encryption" -> 3
      [] api = "put_public_access_block" -> 4
      [] api = "put_object" -> 5
      [] api = "put_bucket_tagging" -> 6
      [] api = "put_bucket_lifecycle_configuration" -> 7
      [] OTHER -> 0

\* C1: in every run of create_data_lake_bucket the calls issued so far are
\* calls of the seven steps only and appear in the order create_bucket,
\* put_bucket_versioning, put_bucket_encryption, put_public_access_block,
\* put_object (the placeholders), put_bucket_tagging,
\* put_bucket_lifecycle_configuration: a call never follows a call of a later
\* step, and only put_object is issued more than once.
C1_CallOrder ==
    op = "create" =>
        /\ \A i \in DOMAIN calls : StepRank(calls[i].api) > 0
        /\ \A i, j \in DOMAIN calls :
              i < j =>
                \/ StepRank(calls[i].api) < StepRank(calls[j].api)
                \/ calls[i].api = "put_object" /\ calls[j].api = "put_object"

C1_Witness ==
    /\ op = "create"
    /\ pc = "returned"
    /\ enable_versioning
    /\ enable_encryption
    /\ Len(zones) >= 2
    /\ Len(calls) = 6 + Len(zones)

\* C2: a run of create_data_lake_bucket that returns a result has issued
\* put_bucket_versioning iff enable_versioning, put_bucket_encryption iff
\* enable_encryption, and in every case create_bucket,
\* put_public_access_block, one put_object per zone, put_bucket_tagging and
\* put_bucket_lifecycle_configuration; and no run, returned or not, issues
\* put_bucket_versioning or put_bucket_encryption with its flag false.
C2_FlagsDecideCalls ==
    /\ op = "create" =>
        /\ Issued("put_bucket_versioning") => enable_versioning
        /\ Issued("put_bucket_encryption") => enable_encryption
    /\ (op = "create" /\ pc = "returned") =>
        /\ Issued("put_bucket_versioning") <=> enable_versioning
        /\ Issued("put_bucket_encryption") <=> enable_encryption
        /\ Count("create_bucket") = 1
        /\ Count("put_public_access_block") = 1
        /\ Count("put_object") = Len(zones)
        /\ Count("put_bucket_tagging") = 1
        /\ Count("put_bucket_lifecycle_configuration") = 1

C2_Witness ==
    /\ op = "create"
    /\ pc = "returned"
    /\ ~enable_versioning
    /\ ~enable_encryption
    /\ zones # << >>
    /\ ~Issued("put_bucket_versioning")
    /\ ~Issued("put_bucket_encryption")


\* the calls of the running operation that the service did not answer OK
Failed == { i \in DOMAIN calls : calls[i].answer # OK }

\* a call that would undo an earlier step
Compensating == { "delete_bucket", "delete_objects", "delete_object" }

\* what the calls answered OK have set on the bucket is still there
EffectsRemain ==
    \A i \in DOMAIN calls :
        calls[i].answer = OK =>
            /\ bucket_name \in DOMAIN svc
            /\ calls[i].api = "put_bucket_versioning" => svc[bucket_name].versioning
            /\ calls[i].api = "put_bucket_encryption" => svc[bucket_name].encryption
            /\ calls[i].api = "put_public_access_block" =>
                   svc[bucket_name].public_access_block
            /\ calls[i].api = "put_object" =>
                   calls[i].params.Key \in DOMAIN svc[bucket_name].objects

\* C3 as claimed: whenever a call of create_data_lake_bucket is answered
\* with an error, it is the last call issued, no compensating call is issued,
\* the effects of the earlier steps remain, and the operation raises that
\* same error.
C3_AnyErrorAbortsAndIsRaised ==
    op = "create" =>
        \A i \in Failed :
            /\ i = Len(calls)
            /\ \A j \in DOMAIN calls : calls[j].api \notin Compensating
            /\ EffectsRemain
            /\ pc = "raised"
            /\ outcome = [kind |-> "raised", value |-> calls[i].answer]

\* C3 as amended: whenever a call of create_data_lake_bucket is answered with
\* an error other than BucketAlreadyOwnedByYou on create_bucket, it is the
\* last call issued, no compensating call is issued, the effects of the
\* earlier steps remain, and the operation raises that same error, except
\* that BucketAlreadyExists on create_bucket is raised as the ValueError of a
\* naming collision.
C3_ErrorAbortsAndIsRaised ==
    op = "create" =>
        \A i \in Failed :
            LET tolerated == /\ calls[i].api = "create_bucket"
                             /\ calls[i].answer = ClientError("BucketAlreadyOwnedByYou")
                collision == /\ calls[i].api = "create_bucket"
                             /\ calls[i].answer = ClientError("BucketAlreadyExists")
            IN ~tolerated =>
                 /\ i = Len(calls)
                 /\ \A j \in DOMAIN calls : calls[j].api \notin Compensating
                 /\ EffectsRemain
                 /\ pc = "raised"
                 /\ outcome = [kind |-> "raised",
                               value |-> IF collision THEN NamingCollision
                                         ELSE calls[i].answer]

C3_Witness ==
    /\ op = "create"
    /\ pc = "raised"
    /\ calls[Len(calls)].api = "put_object"
    /\ calls[Len(calls)].answer = ClientError("AccessDenied")
    /\ zi >= 1
    /\ zi < Len(zones)
    /\ ZoneKey(zones[zi]) \in DOMAIN svc[bucket_name].objects
    /\ svc[bucket_name].public_access_block

\* C4: when create_bucket is answered BucketAlreadyExists,
\* create_data_lake_bucket raises the naming-collision ValueError and no call
\* but create_bucket is issued.
C4_CollisionIsFatal ==
    (op = "create" /\ calls # << >>
        /\ calls[1].answer = ClientError("BucketAlreadyExists")) =>
        /\ Len(calls) = 1
        /\ pc = "raised"
        /\ outcome = [kind |-> "raised", value |-> NamingCollision]

C4_Witness ==
    /\ op = "create"
    /\ calls # << >>
    /\ calls[1].api = "create_bucket"
    /\ calls[1].answer = ClientError("BucketAlreadyExists")
    /\ outcome.kind = "raised"

\* the calls of a complete run, by the flags and the zones
FullRun(ev, ee, zs) ==
    << "create_bucket" >>
        \o (IF ev THEN << "put_bucket_versioning" >> ELSE << >>)
        \o (IF ee THEN << "put_bucket_encryption" >> ELSE << >>)
        \o << "put_public_access_block" >>
        \o [ i \in 1..Len(zs) |-> "put_object" ]
        \o << "put_bucket_tagging", "put_bucket_lifecycle_configuration" >>

\* C5: when create_bucket is answered BucketAlreadyOwnedByYou,
\* create_data_lake_bucket does not raise for it: the calls it goes on to
\* issue are those of a complete run, in that order and on that bucket, it
\* raises only when one of those later calls fails, and when none fails it
\* returns the result.
C5_AlreadyOwnedIsTolerated ==
    (op = "create" /\ calls # << >>
        /\ calls[1].answer = ClientError("BucketAlreadyOwnedByYou")) =>
        LET full == FullRun(enable_versioning, enable_encryption, zones)
        IN /\ Len(calls) <= Len(full)
           /\ Apis = SubSeq(full, 1, Len(calls))
           /\ \A i \in DOMAIN calls : calls[i].bucket = bucket_name
           /\ pc = "raised" => (Len(calls) > 1 /\ Len(calls) \in Failed)
           /\ pc # "raised" =>
                 IF Len(calls) = Len(full)
                 THEN /\ pc = "returned"
                      /\ outcome.kind = "returned"
                      /\ outcome.value.bucket_name = bucket_name
                 ELSE pc = full[Len(calls) + 1]

C5_Witness ==
    /\ op = "create"
    /\ calls # << >>
    /\ calls[1].answer = ClientError("BucketAlreadyOwnedByYou")
    /\ pc = "returned"
    /\ outcome.kind = "returned"
    /\ Failed = {1}


---------------------------------------------------------------------------
(* Properties of delete_bucket                                             *)

\* the keys the bucket held when delete_bucket was called
HeldAtCall ==
    IF bucket_name \in DOMAIN svc0 THEN DOMAIN svc0[bucket_name].objects ELSE {}

\* C6 as claimed: delete_bucket(bucket, force=True) on a bucket that holds
\* n >= 1 objects issues delete_objects at most once, before delete_bucket,
\* with exactly the keys of all n objects, so that no object is left in the
\* bucket when delete_bucket is issued.
C6_ForceDeletesEveryObject ==
    (op = "delete" /\ force /\ HeldAtCall # {}) =>
        /\ Count("delete_objects") <= 1
        /\ \A i, j \in DOMAIN calls :
              (calls[i].api = "delete_bucket" /\ calls[j].api = "delete_objects")
                  => j < i
        /\ Issued("delete_bucket") => Issued("delete_objects")
        /\ \A i \in DOMAIN calls :
              calls[i].api = "delete_objects" =>
                  LET sent == calls[i].params.Objects
                  IN /\ Len(sent) = Cardinality(HeldAtCall)
                     /\ { sent[k].Key : k \in DOMAIN sent } = HeldAtCall

\* C7: delete_bucket(bucket, force=False) issues no call but one
\* delete_bucket, whatever the bucket holds, and when the service answers
\* BucketNotEmpty that error is raised and the service is as it was when the
\* operation was called.
C7_NoForceOnlyDeletesBucket ==
    (op = "delete" /\ ~force) =>
        /\ \A i \in DOMAIN calls : calls[i].api = "delete_bucket"
        /\ Len(calls) <= 1
        /\ pc \in {"delete_bucket", "returned", "raised"}
        /\ pc = "delete_bucket" <=> calls = << >>
        /\ \A i \in DOMAIN calls :
              calls[i].answer = ClientError("BucketNotEmpty") =>
                  /\ pc = "raised"
                  /\ outcome = [kind |-> "raised",
                                value |-> ClientError("BucketNotEmpty")]
                  /\ svc = svc0

C7_Witness ==
    /\ op = "delete"
    /\ ~force
    /\ pc = "raised"
    /\ Len(calls) = 1
    /\ calls[1].api = "delete_bucket"
    /\ calls[1].answer = ClientError("BucketNotEmpty")
    /\ Cardinality(HeldAtCall) = SmallBucket
    /\ DOMAIN svc[bucket_name].objects = HeldAtCall

---------------------------------------------------------------------------
(* Properties of _generate_bucket_name                                     *)

\* C8 as claimed: the generated bucket name contains only lowercase letters
\* a-z, digits 0-9 and hyphens, whatever the project and the environment.
C8_NameCharsValid ==
    pc = "named" => Range(bucket_name) \subseteq BucketNameChars

\* C9: the generated bucket name is at most 63 characters long and its last
\* 6 characters are the suffix drawn, whether or not the name was truncated.
C9_LengthAndSuffix ==
    pc = "named" =>
        /\ Len(bucket_name) <= 63
        /\ Len(bucket_name) >= 6
        /\ SubSeq(bucket_name, Len(bucket_name) - 5, Len(bucket_name)) = suffix
        /\ Len(suffix) = 6

C9_Witness ==
    /\ pc = "named"
    /\ Len(Clean(project)) + Len(Clean(environment)) > 60
    /\ Len(bucket_name) = 63
    /\ SubSeq(bucket_name, 58, 63) = suffix

---------------------------------------------------------------------------
(* Properties of the tags                                                  *)

BaseKeys == { "Project", "Environment", "ManagedBy", "Purpose" }

\* C10: the TagSet sent by put_bucket_tagging holds one entry for each of
\* Project, Environment, ManagedBy, Purpose and each key of the caller's
\* tags, and no other; a key of the caller's carries the caller's value, also
\* when it is a base key, and a base key the caller did not give carries
\* project, environment, 'boto3-script' and 'data-lake' respectively.
C10_TagsMerged ==
    op = "create" =>
        \A i \in DOMAIN calls :
            calls[i].api = "put_bucket_tagging" =>
                LET sent == calls[i].params.TagSet
                IN /\ { sent[k].Key : k \in DOMAIN sent } = BaseKeys \cup DictKeys(tags)
                   /\ Len(sent) = Cardinality(BaseKeys \cup DictKeys(tags))
                   /\ \A k \in DOMAIN sent :
                         sent[k].Value =
                            IF sent[k].Key \in DictKeys(tags)
                               THEN DictGet(tags, sent[k].Key)
                            ELSE IF sent[k].Key = "Project" THEN project
                            ELSE IF sent[k].Key = "Environment" THEN environment
                            ELSE IF sent[k].Key = "ManagedBy"
                               THEN <<"b","o","t","o","3","-","s","c","r","i","p","t">>
                            ELSE <<"d","a","t","a","-","l","a","k","e">>

C10_Witness ==
    /\ op = "create"
    /\ Issued("put_bucket_tagging")
    /\ "Purpose" \in DictKeys(tags)
    /\ DictGet(tags, "Purpose") # <<"d","a","t","a","-","l","a","k","e">>
    /\ "Owner" \in DictKeys(tags)
    /\ "Project" \notin DictKeys(tags)
    /\ \E i \in DOMAIN calls :
          /\ calls[i].api = "put_bucket_tagging"
          /\ Len(calls[i].params.TagSet) = 5


---------------------------------------------------------------------------
(* Properties of the zone placeholders                                     *)

IsPutObject(c) == c.api = "put_object"

\* the put_object calls of the running operation, in the order issued
PutObjectCalls == SelectSeq(calls, IsPutObject)

\* the loop of _create_zone_folders has ended without raising
PlaceholdersDone ==
    /\ op = "create"
    /\ pc = "put_bucket_tagging" \/ Issued("put_bucket_tagging")

\* C11: the put_object calls of create_data_lake_bucket are, in order, those
\* of the entries of zones, the k-th with the key zones[k] + "/.keep" on the
\* bucket of the run; when the placeholder step has succeeded there is exactly
\* one call per entry of zones, each answered OK, and the bucket holds the
\* objects it held before and the keys z + "/.keep" of the zones, and no
\* other.
C11_OnePlaceholderPerZone ==
    op = "create" =>
        /\ Len(PutObjectCalls) <= Len(zones)
        /\ \A k \in DOMAIN PutObjectCalls :
              /\ PutObjectCalls[k].params.Key = zones[k] \o "/.keep"
              /\ PutObjectCalls[k].bucket = bucket_name
        /\ PlaceholdersDone =>
              /\ Len(PutObjectCalls) = Len(zones)
              /\ \A k \in DOMAIN PutObjectCalls : PutObjectCalls[k].answer = OK
              /\ bucket_name \in DOMAIN svc
              /\ DOMAIN svc[bucket_name].objects =
                    HeldAtCall \cup { zones[k] \o "/.keep" : k \in DOMAIN zones }

C11_Witness ==
    /\ PlaceholdersDone
    /\ zones = << "sandbox", "raw", "sandbox" >>
    /\ Len(PutObjectCalls) = 3
    /\ PutObjectCalls[1].params.Key = "sandbox/.keep"
    /\ PutObjectCalls[2].params.Key = "raw/.keep"
    /\ PutObjectCalls[3].params.Key = "sandbox/.keep"
    /\ DOMAIN svc[bucket_name].objects = { "raw/.keep", "sandbox/.keep" }

\* C12 as claimed: the body of every placeholder put_object call has zero
\* bytes.
C12_PlaceholderIsEmpty ==
    op = "create" =>
        \A k \in DOMAIN PutObjectCalls : Len(PutObjectCalls[k].params.Body) = 0

\* C12 as amended: the body of every placeholder put_object call is the same
\* 35 bytes, 'placeholder file for data lake zone', and a placeholder written
\* is an object of 35 bytes.
C12_PlaceholderBodyIsFixed ==
    op = "create" =>
        \A k \in DOMAIN PutObjectCalls :
            /\ PutObjectCalls[k].params.Body = "placeholder file for data lake zone"
            /\ Len(PutObjectCalls[k].params.Body) = 35
            /\ PutObjectCalls[k].answer = OK =>
                  svc[bucket_name].objects[PutObjectCalls[k].params.Key] = 35

C12_Witness ==
    /\ op = "create"
    /\ Len(PutObjectCalls) >= 2
    /\ \A k \in DOMAIN PutObjectCalls :
          /\ PutObjectCalls[k].answer = OK
          /\ Len(PutObjectCalls[k].params.Body) = 35
          /\ svc[bucket_name].objects[PutObjectCalls[k].params.Key] = 35

=============================================================================
